---- MODULE Spec2Model ----
(***************************************************************************)
(* Model of the CFE tariff scraper (src/scraper.py): the traversal of      *)
(* fare types x periods x regions x municipalities x divisions, the table  *)
(* extractor, the record store and the failure tracker.                    *)
(*                                                                         *)
(* A text is a sequence of tokens; every character the code treats         *)
(* specially (" ", ",", "_", ".", "/") is a token of its own, so that      *)
(* strip, replace and the id's join are computed as the code computes      *)
(* them.  Timestamps (extracted_at, timestamp) are not modelled.           *)
(***************************************************************************)
EXTENDS Integers, Sequences, FiniteSets, TLC

VARIABLES
    pc,                 \* position of scrape_all_data
    fi, pi, ri, mi, di, \* loop positions: fare, period, region, municipality, division
    regions, municipalities, divisions,   \* the enumerations held by the loops
    original_data, translated_data, failed_extractions,  \* in-memory collections
    fs,                 \* the files: path -> [complete, data]
    driver,             \* the browser session: "open" or "quit"
    site,               \* the remote form: what its controls list and the table it renders
    loaded,             \* what __init__ found: was the original-language file readable, its records
    may_fault,          \* the class of fault that can still strike this run
    calls,              \* the navigation and extraction calls made so far
    table, result,      \* the input and output of a function taken on its own
    save_errors,        \* the files save_json_data logged "Error saving data to" for
    ending,             \* how the try block of scrape_all_data ended
    interrupted,        \* an interrupt has been raised from outside
    run_status,         \* Run.status of the job that runs the engine
    tariffs_en,         \* the record_id column of the tariffs_en table
    failures,           \* the rows of the failures table
    jobs                \* the jobs that share an output directory: id -> engine and run

vars == <<pc, fi, pi, ri, mi, di, regions, municipalities, divisions,
          original_data, translated_data, failed_extractions, fs, driver,
          site, loaded, may_fault, calls, table, result,
          save_errors, ending, interrupted, run_status, tariffs_en, failures, jobs>>

\* what no step of the traversal changes
outcome_vars == <<ending, interrupted, run_status, tariffs_en, failures, jobs>>

----------------------------------------------------------------------------
(* Bounds of the model *)

MaxFares == 2
MaxPeriods == 1
MaxLeaves == 2
MaxRows == 2
MaxText == 3

----------------------------------------------------------------------------
(* Fare types and periods *)

\* the keys of self.fare_urls, in declaration order
fare_urls == <<"GDMTO", "GDMTH", "DIST", "DIT">>

Fares == SubSeq(fare_urls, 1, IF MaxFares < Len(fare_urls) THEN MaxFares ELSE Len(fare_urls))

FirstMonth2024 == 9
EndMonth2024 == 13
FirstMonth2025 == 1
EndMonth2025 == 13

\* range(a, b) as a sequence
Range(a, b) == [k \in 1..(IF b > a THEN b - a ELSE 0) |-> a + k - 1]

all_periods ==
    [k \in 1..Len(Range(FirstMonth2024, EndMonth2024)) |->
        [year |-> <<"2024">>, month |-> Range(FirstMonth2024, EndMonth2024)[k]]]
    \o
    [k \in 1..Len(Range(FirstMonth2025, EndMonth2025)) |->
        [year |-> <<"2025">>, month |-> Range(FirstMonth2025, EndMonth2025)[k]]]

\* the model walks the first MaxPeriods periods
periods == SubSeq(all_periods, 1, IF MaxPeriods < Len(all_periods) THEN MaxPeriods ELSE Len(all_periods))

----------------------------------------------------------------------------
(* Texts *)

NA == <<"N/A">>

DigitToken(d) ==
    CASE d = 0 -> "0" [] d = 1 -> "1" [] d = 2 -> "2" [] d = 3 -> "3" [] d = 4 -> "4"
      [] d = 5 -> "5" [] d = 6 -> "6" [] d = 7 -> "7" [] d = 8 -> "8" [] OTHER -> "9"

\* str(n) for a natural number
RECURSIVE Str(_)
Str(n) == IF n < 10 THEN <<DigitToken(n)>> ELSE Str(n \div 10) \o <<DigitToken(n % 10)>>

\* text.replace(tok, "")
RECURSIVE Remove(_, _)
Remove(text, tok) ==
    IF text = <<>> THEN <<>>
    ELSE IF Head(text) = tok THEN Remove(Tail(text), tok)
    ELSE <<Head(text)>> \o Remove(Tail(text), tok)

\* text.strip()
RECURSIVE LStrip(_)
LStrip(text) == IF text # <<>> /\ Head(text) = " " THEN LStrip(Tail(text)) ELSE text
RECURSIVE RStrip(_)
RStrip(text) ==
    IF text # <<>> /\ text[Len(text)] = " " THEN RStrip(SubSeq(text, 1, Len(text) - 1)) ELSE text
Strip(text) == RStrip(LStrip(text))

Contains(text, tok) == \E k \in 1..Len(text) : text[k] = tok

UnsafeTokens == {" ", "/", "\\", ":", "*", "?", "\"", "<", ">", "|", "."}

create_safe_filename(name) ==
    [k \in 1..Len(name) |-> IF name[k] \in UnsafeTokens THEN "_" ELSE name[k]]

get_month_name(month_num) ==
    CASE month_num = 1 -> <<"ENERO">> [] month_num = 2 -> <<"FEBRERO">>
      [] month_num = 3 -> <<"MARZO">> [] month_num = 4 -> <<"ABRIL">>
      [] month_num = 5 -> <<"MAYO">> [] month_num = 6 -> <<"JUNIO">>
      [] month_num = 7 -> <<"JULIO">> [] month_num = 8 -> <<"AGOSTO">>
      [] month_num = 9 -> <<"SEPTIEMBRE">> [] month_num = 10 -> <<"OCTUBRE">>
      [] month_num = 11 -> <<"NOVIEMBRE">> [] month_num = 12 -> <<"DICIEMBRE">>
      [] OTHER -> Str(month_num)

----------------------------------------------------------------------------
(* The remote form *)

Placeholder == [value |-> <<"0">>, text |-> <<"Seleccione", " ", "una", " ", "opcion">>]

RawOptions(prefix, n) ==
    <<Placeholder>> \o [k \in 1..n |-> [value |-> Str(k), text |-> <<" ">> \o prefix \o Str(k)]]

RegionOptions(s) == RawOptions(<<"R">>, s.nRegions)
MunicipalityOptions(s) == RawOptions(<<"M", ".">>, s.nMunis)
DivisionOptions(s) == RawOptions(<<"D", " ">>, s.nDivs)

HeaderRow == <<>>

Cell(text) == [text |-> text, textContent |-> text]
\* a cell whose visible text is blank: the text sits in nested font tags
FontCell(text) == [text |-> <<>>, textContent |-> <<" ">> \o text]

GoodRow(k) == <<Cell(<<"Tarifa">>), Cell(<<"Base", " ">>), Cell(<<"$/kWh">>),
                FontCell(<<"1", ",">> \o Str(k) \o <<".", "5">>)>>
ShortRow == <<Cell(<<"Cargo">>), Cell(<<"Fijo">>)>>

\* the tables the site renders in the traversal model
SiteTables == {
    <<HeaderRow>>,
    <<HeaderRow, ShortRow, GoodRow(2), GoodRow(3)>> }

Product(r, m, d) ==
    (IF r = 0 THEN 1 ELSE r) * (IF m = 0 THEN 1 ELSE m) * (IF d = 0 THEN 1 ELSE d)

\* a site lists nRegions regions, nMunis municipalities under each region and
\* nDivs divisions under each municipality, and renders one table at every leaf
Sites ==
    { [nRegions |-> r, nMunis |-> m, nDivs |-> d, table |-> t] :
        r \in 0..MaxLeaves, m \in 0..MaxLeaves, d \in 0..MaxLeaves, t \in SiteTables }

IsSite(s) ==
    /\ Product(s.nRegions, s.nMunis, s.nDivs) <= MaxLeaves
    /\ s.nRegions = 0 => s.nMunis = 0
    /\ s.nMunis = 0 => s.nDivs = 0
    /\ s.nDivs = 0 => s.table = <<HeaderRow>>

----------------------------------------------------------------------------
(* Navigation primitives and option enumerator *)

\* select_dropdown_option: True, False (TimeoutException or NoSuchElementException
\* caught), or any other exception of the driver, which it does not catch
SelectOutcomes == {"ok", "false", "raise"}

\* get_available_options: the filtered list, [] (TimeoutException or
\* NoSuchElementException caught), or any other exception of the driver
OptionOutcomes == {"ok", "empty", "raise"}

KeepOption(o) ==
    /\ o.value # <<>>
    /\ o.value # <<"0">>
    /\ Strip(o.text) # <<>>
    /\ ~Contains(Strip(o.text), "Seleccione")
    /\ ~Contains(Strip(o.text), "Select")

get_available_options(raw, outcome) ==
    IF outcome = "ok"
    THEN LET kept == SelectSeq(raw, KeepOption)
         IN [k \in 1..Len(kept) |-> [value |-> kept[k].value, text |-> Strip(kept[k].text)]]
    ELSE <<>>

----------------------------------------------------------------------------
(* Table extractor *)

extract_clean_text(element) ==
    IF Strip(element.text) # <<>> THEN Strip(element.text) ELSE Strip(element.textContent)

\* extract_clean_text when reading the cell raises: its bare except returns ""
swallowed(table_data, k, field) == [table_data EXCEPT ![k][field] = <<>>]

Join6(a, b, c, d, e, f) ==
    a \o <<"_">> \o b \o <<"_">> \o c \o <<"_">> \o d \o <<"_">> \o e \o <<"_">> \o f

row_data(i, td_cells, fare_type, region_name, municipality_name, division_name, year, month) ==
    [id |-> Join6(region_name, municipality_name, division_name, year, Str(month), Str(i)),
     region |-> region_name,
     municipality |-> municipality_name,
     division |-> division_name,
     year |-> year,
     month |-> month,
     month_name |-> get_month_name(month),
     fare |-> fare_type,
     post |-> extract_clean_text(td_cells[Len(td_cells) - 2]),
     units |-> extract_clean_text(td_cells[Len(td_cells) - 1]),
     tariff_value |-> Remove(extract_clean_text(td_cells[Len(td_cells)]), ",")]

\* rows: the tr elements of the table, each the sequence of its td cells;
\* raised: an exception inside the extractor (no table on the page, a stale element)
extract_table_data_simplified(rows, raised, fare_type, region_name, municipality_name, division_name, year, month) ==
    IF raised THEN <<>>
    ELSE IF Len(rows) < 2 THEN <<>>
    ELSE LET HasData(i) == Len(rows[i + 1]) >= 3
             emitted == SelectSeq([i \in 1..(Len(rows) - 1) |-> i], HasData)
         IN [k \in 1..Len(emitted) |->
                row_data(emitted[k], rows[emitted[k] + 1], fare_type, region_name,
                         municipality_name, division_name, year, month)]

----------------------------------------------------------------------------
(* Translation adapter *)

\* the remote translator's answer for a text
Translated(text) == <<"en:">> \o text

\* an adapter with no guard and no fallback text
translate_text_NoGuard(text, fails) == IF fails THEN <<>> ELSE Translated(text)

\* the remote translator is invoked for the text
translator_invoked(text) == ~(text = <<>> \/ Strip(text) = <<>>)

translate_text(text, fails) ==
    IF text = <<>> \/ Strip(text) = <<>> THEN text
    ELSE IF fails THEN text
    ELSE Translated(text)

fields_to_translate == {"region", "municipality", "division", "post", "units", "month_name"}

\* failing: the fields for which the remote translator fails
translate_data_record(record, failing) ==
    [f \in DOMAIN record |->
        IF f \in fields_to_translate /\ record[f] # <<>>
        THEN translate_text(record[f], f \in failing)
        ELSE record[f]]

----------------------------------------------------------------------------
(* Files *)

original_data_file == <<"cfe_tariff_data_spanish.json">>
translated_data_file == <<"cfe_tariff_data_english.json">>
failed_extractions_file == <<"failed_extractions.json">>

WriteOk == [kind |-> "ok", keep |-> 0]

\* how a write of len records can end: written; makedirs or open fails and the
\* file is untouched; open has truncated the file and dump fails after keep records
WriteOutcomes(len) ==
    {WriteOk, [kind |-> "noopen", keep |-> 0]}
    \cup { [kind |-> "partial", keep |-> k] : k \in {0, len - 1} \cap 0..(len - 1) }

save_json_data(f, data, filepath, outcome) ==
    CASE outcome.kind = "ok" -> (filepath :> [complete |-> TRUE, data |-> data]) @@ f
      [] outcome.kind = "partial" ->
            (filepath :> [complete |-> FALSE, data |-> SubSeq(data, 1, outcome.keep)]) @@ f
      [] OTHER -> f

\* the line save_json_data logs when the write fails
save_error(filepath, outcome) == IF outcome.kind = "ok" THEN <<>> ELSE <<filepath>>

load_existing_data(f, filepath) ==
    IF filepath \in DOMAIN f /\ f[filepath].complete THEN f[filepath].data ELSE <<>>

\* f"{month:02d}"
Pad2(n) == IF n < 10 THEN <<"0">> \o Str(n) ELSE Str(n)

individual_file(fare_type, region_name, municipality_name, division_name, year, month, suffix) ==
    <<"extraction", "/">> \o create_safe_filename(region_name) \o <<"/">>
        \o create_safe_filename(municipality_name) \o <<"/", fare_type, "_">>
        \o create_safe_filename(division_name) \o <<"_">> \o year \o <<"_">> \o Pad2(month)
        \o <<suffix>>

----------------------------------------------------------------------------
(* Failure tracker *)

\* a tracker that files every failure at the municipality's scope
failure_record_NoDivision(fare_type, region_name, municipality_name, division_name, year, month, error_msg) ==
    [fare_type |-> fare_type, region |-> region_name, municipality |-> municipality_name,
     division |-> NA, year |-> year, month |-> month, error |-> error_msg]

failure_record(fare_type, region_name, municipality_name, division_name, year, month, error_msg) ==
    [fare_type |-> fare_type, region |-> region_name, municipality |-> municipality_name,
     division |-> division_name, year |-> year, month |-> month, error |-> error_msg]

\* a tracker that keeps the latest failure only
track_failure_Overwrite(failed, f, rec, outcome) ==
    [failed |-> <<rec>>,
     fs |-> save_json_data(f, <<rec>>, failed_extractions_file, outcome)]

track_failure(failed, f, rec, outcome) ==
    [failed |-> Append(failed, rec),
     fs |-> save_json_data(f, Append(failed, rec), failed_extractions_file, outcome)]

----------------------------------------------------------------------------
(* Record store *)

\* the subsets of S with at most k elements
RECURSIVE KSubsets(_, _)
KSubsets(S, k) ==
    IF k <= 0 THEN {{}}
    ELSE LET P == KSubsets(S, k - 1) IN P \cup { q \cup {x} : q \in P, x \in S }

\* The faults that can strike one append_and_save_data of new_data:
\*   mkdir          os.makedirs fails in get_region_municipality_path
\*   write a        the a-th save_json_data fails (1, 2: the leaf's files; 3, 4: the
\*                  consolidated files), c the kind and b the records kept
\*   tr a b c       the translator fails in pass a (1: leaf file, 2: consolidated)
\*                  for field c of row b
MkdirFault == [k |-> "mkdir", a |-> 0, b |-> 0, c |-> ""]

WriteFaults(j, len) ==
    { [k |-> "write", a |-> j, b |-> o.keep, c |-> o.kind] : o \in WriteOutcomes(len) \ {WriteOk} }

TranslateFaults(new_data) ==
    { [k |-> "tr", a |-> pass, b |-> r, c |-> f] :
        pass \in 1..2, r \in 1..Len(new_data), f \in fields_to_translate }

FaultPoints(new_data, n_orig, n_trans) ==
    {MkdirFault}
    \cup WriteFaults(1, Len(new_data)) \cup WriteFaults(2, Len(new_data))
    \cup WriteFaults(3, n_orig + Len(new_data)) \cup WriteFaults(4, n_trans + Len(new_data))
    \cup { t \in TranslateFaults(new_data) : Strip(new_data[t.b][t.c]) # <<>> }

\* a plan names faults that are all reached, one outcome for each write
PlanOk(plan) ==
    /\ \A x \in plan, y \in plan : (x.k = "write" /\ y.k = "write" /\ x.a = y.a) => x = y
    /\ MkdirFault \in plan =>
          \A x \in plan : /\ ~(x.k = "write" /\ x.a \in {1, 2})
                          /\ ~(x.k = "tr" /\ x.a = 1)

FaultPlans(new_data, n_orig, n_trans, budget) ==
    { plan \in KSubsets(FaultPoints(new_data, n_orig, n_trans), budget) : PlanOk(plan) }

WriteOutcome(plan, j) ==
    IF \E x \in plan : x.k = "write" /\ x.a = j
    THEN LET x == CHOOSE x \in plan : x.k = "write" /\ x.a = j
         IN [kind |-> x.c, keep |-> x.b]
    ELSE WriteOk

Failing(plan, pass, r) == { x.c : x \in { y \in plan : y.k = "tr" /\ y.a = pass /\ y.b = r } }

translate_batch(data, plan, pass) ==
    [r \in 1..Len(data) |-> translate_data_record(data[r], Failing(plan, pass, r))]

save_individual_files(f, data, fare_type, region_name, municipality_name, division_name, year, month, plan) ==
    IF data = <<>> \/ MkdirFault \in plan THEN f
    ELSE LET spanish_file == individual_file(fare_type, region_name, municipality_name,
                                             division_name, year, month, "_spanish.json")
             english_file == individual_file(fare_type, region_name, municipality_name,
                                             division_name, year, month, "_english.json")
             f1 == save_json_data(f, data, spanish_file, WriteOutcome(plan, 1))
         IN save_json_data(f1, translate_batch(data, plan, 1), english_file,
                           WriteOutcome(plan, 2))

\* a store that flushes the delta: each consolidated write holds the new batch only
append_and_save_data_Delta(orig, trans, f, new_data, fare_type, region_name, municipality_name, division_name, year, month, plan) ==
    IF new_data = <<>> THEN [original_data |-> orig, translated_data |-> trans, fs |-> f]
    ELSE LET f1 == save_individual_files(f, new_data, fare_type, region_name,
                                         municipality_name, division_name, year, month, plan)
             f2 == save_json_data(f1, new_data, original_data_file, WriteOutcome(plan, 3))
             f3 == save_json_data(f2, translate_batch(new_data, plan, 2),
                                  translated_data_file, WriteOutcome(plan, 4))
         IN [original_data |-> orig \o new_data,
             translated_data |-> trans \o translate_batch(new_data, plan, 2), fs |-> f3]

\* a store that forgets the translated collection
append_and_save_data_OriginalOnly(orig, trans, f, new_data, fare_type, region_name, municipality_name, division_name, year, month, plan) ==
    IF new_data = <<>> THEN [original_data |-> orig, translated_data |-> trans, fs |-> f]
    ELSE LET f1 == save_individual_files(f, new_data, fare_type, region_name,
                                         municipality_name, division_name, year, month, plan)
             orig2 == orig \o new_data
             f2 == save_json_data(f1, orig2, original_data_file, WriteOutcome(plan, 3))
         IN [original_data |-> orig2, translated_data |-> trans, fs |-> f2]

\* the collections and files after append_and_save_data(new_data, ...)
append_and_save_data(orig, trans, f, new_data, fare_type, region_name, municipality_name, division_name, year, month, plan) ==
    IF new_data = <<>> THEN [original_data |-> orig, translated_data |-> trans, fs |-> f]
    ELSE LET f1 == save_individual_files(f, new_data, fare_type, region_name,
                                         municipality_name, division_name, year, month, plan)
             orig2 == orig \o new_data
             f2 == save_json_data(f1, orig2, original_data_file, WriteOutcome(plan, 3))
             trans2 == trans \o translate_batch(new_data, plan, 2)
             f3 == save_json_data(f2, trans2, translated_data_file, WriteOutcome(plan, 4))
         IN [original_data |-> orig2, translated_data |-> trans2, fs |-> f3]

\* the collections and files when append_and_save_data(new_data, ...) is left by an
\* exception that none of its handlers catches, raised
\*   at = 1  after save_individual_files, before the first extend
\*   at = 2  after original_data.extend, before its flush
\*   at = 3  after the flush of original_data, before translated_data.extend
\*   at = 4  after translated_data.extend, before its flush
append_and_save_data_until(orig, trans, f, new_data, fare_type, region_name, municipality_name, division_name, year, month, at) ==
    LET f1 == save_individual_files(f, new_data, fare_type, region_name,
                                    municipality_name, division_name, year, month, {})
        orig2 == orig \o new_data
        f2 == save_json_data(f1, orig2, original_data_file, WriteOk)
        trans2 == trans \o translate_batch(new_data, {}, 2)
    IN [original_data |-> IF at >= 2 THEN orig2 ELSE orig,
        translated_data |-> IF at >= 4 THEN trans2 ELSE trans,
        fs |-> IF at >= 3 THEN f2 ELSE f1]

\* the errors save_json_data logs during append_and_save_data(new_data, ...)
append_errors(new_data, fare_type, region_name, municipality_name, division_name, year, month, plan) ==
    IF new_data = <<>> THEN <<>>
    ELSE (IF MkdirFault \in plan THEN <<>>
          ELSE save_error(individual_file(fare_type, region_name, municipality_name,
                              division_name, year, month, "_spanish.json"),
                          WriteOutcome(plan, 1))
               \o save_error(individual_file(fare_type, region_name, municipality_name,
                                 division_name, year, month, "_english.json"),
                             WriteOutcome(plan, 2)))
         \o save_error(original_data_file, WriteOutcome(plan, 3))
         \o save_error(translated_data_file, WriteOutcome(plan, 4))

----------------------------------------------------------------------------
(* Traversal engine: positions *)

Pos == [pc |-> pc, fi |-> fi, pi |-> pi, ri |-> ri, mi |-> mi, di |-> di]

Goto(p) ==
    /\ pc' = p.pc /\ fi' = p.fi /\ pi' = p.pi
    /\ ri' = p.ri /\ mi' = p.mi /\ di' = p.di

\* loops that stop after the first (fare, period) pair
NextPeriodPos_StopEarly(p) == [p EXCEPT !.pc = "quit"]

\* `continue` of the period loop, and the end of the fare loop
NextPeriodPos(p) ==
    IF p.pi < Len(periods) THEN [p EXCEPT !.pc = "navigate", !.pi = p.pi + 1]
    ELSE IF p.fi < Len(Fares) THEN [p EXCEPT !.pc = "navigate", !.fi = p.fi + 1, !.pi = 1]
    ELSE [p EXCEPT !.pc = "quit"]

\* `for region in regions`
FirstRegionPos(p, n_regions) ==
    IF n_regions > 0 THEN [p EXCEPT !.pc = "region", !.ri = 1] ELSE NextPeriodPos(p)

NextRegionPos(p, n_regions) ==
    IF p.ri < n_regions THEN [p EXCEPT !.pc = "region", !.ri = p.ri + 1] ELSE NextPeriodPos(p)

\* `for municipality in municipalities`
FirstMunicipalityPos(p, n_regions, n_municipalities) ==
    IF n_municipalities > 0 THEN [p EXCEPT !.pc = "municipality", !.mi = 1]
    ELSE NextRegionPos(p, n_regions)

\* `break` in place of `continue`: the region's remaining municipalities are dropped
NextMunicipalityPos_Break(p, n_regions, n_municipalities) == NextRegionPos(p, n_regions)

NextMunicipalityPos(p, n_regions, n_municipalities) ==
    IF p.mi < n_municipalities THEN [p EXCEPT !.pc = "municipality", !.mi = p.mi + 1]
    ELSE NextRegionPos(p, n_regions)

\* a division loop that does not advance
NextDivisionPos_NoAdvance(p, n_divisions) ==
    IF p.di < n_divisions THEN [p EXCEPT !.pc = "division"]
    ELSE [p EXCEPT !.pc = "back_region"]

\* `for division in divisions`; after the last division the municipality's body goes
\* on to "Go back to region selection"
NextDivisionPos(p, n_divisions) ==
    IF p.di < n_divisions THEN [p EXCEPT !.pc = "division", !.di = p.di + 1]
    ELSE [p EXCEPT !.pc = "back_region"]

----------------------------------------------------------------------------
(* Traversal engine: the current context *)

fare_type == Fares[fi]
year == periods[pi].year
month == periods[pi].month
region_name == regions[ri].text
municipality_name == municipalities[mi].text
division_name == divisions[di].text

\* an entry of the call log: the call, its position among its siblings (idx; for
\* "options" and "extract" the number of items returned), how it ended, and the
\* context it was made in
Call(op, ctl, value, idx, outcome, r, m, d) ==
    [op |-> op, ctl |-> ctl, value |-> value, idx |-> idx, outcome |-> outcome,
     fare |-> fare_type, year |-> year, month |-> month,
     region |-> r, municipality |-> m, division |-> d]

\* One fault strikes a run at most, of the class the run's environment has:
\* "navigation" (the driver: a selection, an enumeration, the page, the table) or
\* "storage" (the file system and the translator).
Strikes(navigation, storage) ==
    /\ navigation => may_fault = "navigation"
    /\ storage => may_fault = "storage"
    /\ may_fault' = IF navigation \/ storage THEN "none" ELSE may_fault

Track(rec, outcome) ==
    \E t \in {track_failure(failed_extractions, fs, rec, outcome)} :
       /\ failed_extractions' = t.failed
       /\ fs' = t.fs
       /\ save_errors' = save_errors \o save_error(failed_extractions_file, outcome)

\* the message of a failed selection at a level, and str(e) of an exception
SelectError(level) == <<"Failed to select " \o level>>
ExceptionText == <<"exception">>

----------------------------------------------------------------------------
(* Traversal engine: the steps of scrape_all_data *)

\* self.driver.get(base_url); self.wait_for_page_load()
Navigate ==
    /\ pc = "navigate"
    /\ \E o \in {"ok", "raise"} :
        /\ Strikes(o # "ok", FALSE)
        /\ calls' = Append(calls, Call("get", "url", <<fare_type>>, pi, o, NA, NA, NA))
        /\ IF o = "ok" THEN Goto([Pos EXCEPT !.pc = "year"]) ELSE Goto(NextPeriodPos(Pos))
    /\ UNCHANGED <<regions, municipalities, divisions, original_data, translated_data,
                   failed_extractions, fs, save_errors, driver, site, loaded, table, result,
                   outcome_vars>>

SelectYear ==
    /\ pc = "year"
    /\ \E o \in SelectOutcomes :
        /\ Strikes(o # "ok", FALSE)
        /\ calls' = Append(calls, Call("select", "ddAnio", year, pi, o, NA, NA, NA))
        /\ IF o = "ok" THEN Goto([Pos EXCEPT !.pc = "month"]) ELSE Goto(NextPeriodPos(Pos))
    /\ UNCHANGED <<regions, municipalities, divisions, original_data, translated_data,
                   failed_extractions, fs, save_errors, driver, site, loaded, table, result,
                   outcome_vars>>

SelectMonth ==
    /\ pc = "month"
    /\ \E o \in SelectOutcomes :
        /\ Strikes(o # "ok", FALSE)
        /\ calls' = Append(calls, Call("select", "ddMesConsulta", Str(month), pi, o, NA, NA, NA))
        /\ IF o = "ok" THEN Goto([Pos EXCEPT !.pc = "regions"]) ELSE Goto(NextPeriodPos(Pos))
    /\ UNCHANGED <<regions, municipalities, divisions, original_data, translated_data,
                   failed_extractions, fs, save_errors, driver, site, loaded, table, result,
                   outcome_vars>>

GetRegions ==
    /\ pc = "regions"
    /\ \E o \in OptionOutcomes :
        /\ Strikes(o # "ok", FALSE)
        /\ calls' = Append(calls, Call("options", "ddEstado", <<>>,
                            Len(get_available_options(RegionOptions(site), o)), o, NA, NA, NA))
        /\ IF o = "raise"
           THEN /\ Goto(NextPeriodPos(Pos))
                /\ UNCHANGED regions
           ELSE LET found == get_available_options(RegionOptions(site), o)
                IN /\ regions' = found
                   /\ Goto(FirstRegionPos(Pos, Len(found)))
    /\ UNCHANGED <<municipalities, divisions, original_data, translated_data,
                   failed_extractions, fs, save_errors, driver, site, loaded, table, result,
                   outcome_vars>>

SelectRegion ==
    /\ pc = "region"
    /\ \E o \in SelectOutcomes, wo \in WriteOutcomes(Len(failed_extractions) + 1) :
        /\ o = "ok" => wo = WriteOk
        /\ Strikes(o # "ok", wo # WriteOk)
        /\ calls' = Append(calls, Call("select", "ddEstado", regions[ri].value, ri, o,
                                       region_name, NA, NA))
        /\ IF o = "ok"
           THEN /\ Goto([Pos EXCEPT !.pc = "municipalities"])
                /\ UNCHANGED <<failed_extractions, fs, save_errors>>
           ELSE /\ Track(failure_record(fare_type, region_name, NA, NA, year, month,
                             IF o = "false" THEN SelectError("region") ELSE ExceptionText), wo)
                /\ Goto(NextRegionPos(Pos, Len(regions)))
    /\ UNCHANGED <<regions, municipalities, divisions, original_data, translated_data,
                   driver, site, loaded, table, result, outcome_vars>>

GetMunicipalities ==
    /\ pc = "municipalities"
    /\ \E o \in OptionOutcomes, wo \in WriteOutcomes(Len(failed_extractions) + 1) :
        /\ o # "raise" => wo = WriteOk
        /\ Strikes(o # "ok", wo # WriteOk)
        /\ calls' = Append(calls, Call("options", "ddMunicipio", <<>>,
                            Len(get_available_options(MunicipalityOptions(site), o)), o,
                            region_name, NA, NA))
        /\ IF o = "raise"
           THEN /\ Track(failure_record(fare_type, region_name, NA, NA, year, month,
                                        ExceptionText), wo)
                /\ Goto(NextRegionPos(Pos, Len(regions)))
                /\ UNCHANGED municipalities
           ELSE LET found == get_available_options(MunicipalityOptions(site), o)
                IN /\ municipalities' = found
                   /\ Goto(FirstMunicipalityPos(Pos, Len(regions), Len(found)))
                   /\ UNCHANGED <<failed_extractions, fs, save_errors>>
    /\ UNCHANGED <<regions, divisions, original_data, translated_data,
                   driver, site, loaded, table, result, outcome_vars>>

SelectMunicipality ==
    /\ pc = "municipality"
    /\ \E o \in SelectOutcomes, wo \in WriteOutcomes(Len(failed_extractions) + 1) :
        /\ o = "ok" => wo = WriteOk
        /\ Strikes(o # "ok", wo # WriteOk)
        /\ calls' = Append(calls, Call("select", "ddMunicipio", municipalities[mi].value,
                                       mi, o, region_name, municipality_name, NA))
        /\ IF o = "ok"
           THEN /\ Goto([Pos EXCEPT !.pc = "divisions"])
                /\ UNCHANGED <<failed_extractions, fs, save_errors>>
           ELSE /\ Track(failure_record(fare_type, region_name, municipality_name, NA, year,
                             month,
                             IF o = "false" THEN SelectError("municipality") ELSE ExceptionText),
                         wo)
                /\ Goto(NextMunicipalityPos(Pos, Len(regions), Len(municipalities)))
    /\ UNCHANGED <<regions, municipalities, divisions, original_data, translated_data,
                   driver, site, loaded, table, result, outcome_vars>>

GetDivisions ==
    /\ pc = "divisions"
    /\ \E o \in OptionOutcomes, wo \in WriteOutcomes(Len(failed_extractions) + 1) :
        /\ LET found == get_available_options(DivisionOptions(site), o)
           IN /\ (o # "raise" /\ found # <<>>) => wo = WriteOk
              /\ Strikes(o # "ok", wo # WriteOk)
              /\ calls' = Append(calls, Call("options", "ddDivision", <<>>, Len(found), o,
                                             region_name, municipality_name, NA))
              /\ IF o = "raise"
                 THEN /\ Track(failure_record(fare_type, region_name, municipality_name, NA,
                                              year, month, ExceptionText), wo)
                      /\ Goto(NextMunicipalityPos(Pos, Len(regions), Len(municipalities)))
                      /\ UNCHANGED divisions
                 ELSE /\ divisions' = found
                      /\ IF found = <<>>
                         THEN /\ Track(failure_record(fare_type, region_name,
                                           municipality_name, NA, year, month,
                                           <<"No divisions available">>), wo)
                              /\ Goto(NextMunicipalityPos(Pos, Len(regions),
                                                          Len(municipalities)))
                         ELSE /\ Goto([Pos EXCEPT !.pc = "division", !.di = 1])
                              /\ UNCHANGED <<failed_extractions, fs, save_errors>>
    /\ UNCHANGED <<regions, municipalities, original_data, translated_data,
                   driver, site, loaded, table, result, outcome_vars>>

SelectDivision ==
    /\ pc = "division"
    /\ \E o \in SelectOutcomes, wo \in WriteOutcomes(Len(failed_extractions) + 1) :
        /\ o = "ok" => wo = WriteOk
        /\ Strikes(o # "ok", wo # WriteOk)
        /\ calls' = Append(calls, Call("select", "ddDivision", divisions[di].value, di, o,
                                       region_name, municipality_name, division_name))
        /\ IF o = "ok"
           THEN /\ Goto([Pos EXCEPT !.pc = "extract"])
                /\ UNCHANGED <<failed_extractions, fs, save_errors>>
           ELSE /\ Track(failure_record(fare_type, region_name, municipality_name,
                             division_name, year, month,
                             IF o = "false" THEN SelectError("division") ELSE ExceptionText),
                         wo)
                /\ Goto(NextDivisionPos(Pos, Len(divisions)))
    /\ UNCHANGED <<regions, municipalities, divisions, original_data, translated_data,
                   driver, site, loaded, table, result, outcome_vars>>

\* extract_table_data_simplified, then append_and_save_data or track_failure
ExtractAndSave ==
    /\ pc = "extract"
    /\ \E raised \in BOOLEAN :
        \E table_data \in {extract_table_data_simplified(site.table, raised, fare_type,
                              region_name, municipality_name, division_name, year, month)} :
           /\ calls' = Append(calls, Call("extract", "table", <<>>, Len(table_data),
                                          IF raised THEN "raise" ELSE "ok", region_name,
                                          municipality_name, division_name))
           /\ IF table_data # <<>>
              THEN \E plan \in FaultPlans(table_data, Len(original_data),
                                          Len(translated_data),
                                          IF may_fault = "storage" THEN 1 ELSE 0) :
                      \E a \in {append_and_save_data(original_data, translated_data, fs,
                                   table_data, fare_type, region_name, municipality_name,
                                   division_name, year, month, plan)} :
                         /\ original_data' = a.original_data
                         /\ translated_data' = a.translated_data
                         /\ fs' = a.fs
                         /\ save_errors' = save_errors \o
                                append_errors(table_data, fare_type, region_name,
                                    municipality_name, division_name, year, month, plan)
                         /\ Strikes(FALSE, plan # {})
                         /\ UNCHANGED failed_extractions
              ELSE \E wo \in WriteOutcomes(Len(failed_extractions) + 1) :
                      /\ raised => wo = WriteOk
                      /\ Strikes(raised, wo # WriteOk)
                      /\ Track(failure_record(fare_type, region_name, municipality_name,
                                   division_name, year, month, <<"No table data extracted">>),
                               wo)
                      /\ UNCHANGED <<original_data, translated_data>>
    /\ Goto([Pos EXCEPT !.pc = "back_municipality"])
    /\ UNCHANGED <<regions, municipalities, divisions, driver, site, loaded, table, result, outcome_vars>>

\* "Go back to municipality selection": the result is not looked at
ReselectMunicipality ==
    /\ pc = "back_municipality"
    /\ \E o \in SelectOutcomes, wo \in WriteOutcomes(Len(failed_extractions) + 1) :
        /\ o # "raise" => wo = WriteOk
        /\ Strikes(o # "ok", wo # WriteOk)
        /\ calls' = Append(calls, Call("reselect", "ddMunicipio", municipalities[mi].value,
                                       mi, o, region_name, municipality_name, NA))
        /\ IF o # "raise"
           THEN /\ Goto(NextDivisionPos(Pos, Len(divisions)))
                /\ UNCHANGED <<failed_extractions, fs, save_errors>>
           ELSE /\ Track(failure_record(fare_type, region_name, municipality_name, NA, year,
                                        month, ExceptionText), wo)
                /\ Goto(NextMunicipalityPos(Pos, Len(regions), Len(municipalities)))
    /\ UNCHANGED <<regions, municipalities, divisions, original_data, translated_data,
                   driver, site, loaded, table, result, outcome_vars>>

\* "Go back to region selection": the result is not looked at
ReselectRegion ==
    /\ pc = "back_region"
    /\ \E o \in SelectOutcomes, wo \in WriteOutcomes(Len(failed_extractions) + 1) :
        /\ o # "raise" => wo = WriteOk
        /\ Strikes(o # "ok", wo # WriteOk)
        /\ calls' = Append(calls, Call("reselect", "ddEstado", regions[ri].value, ri, o,
                                       region_name, NA, NA))
        /\ IF o # "raise"
           THEN /\ Goto(NextMunicipalityPos(Pos, Len(regions), Len(municipalities)))
                /\ UNCHANGED <<failed_extractions, fs, save_errors>>
           ELSE /\ Track(failure_record(fare_type, region_name, NA, NA, year, month,
                                        ExceptionText), wo)
                /\ Goto(NextRegionPos(Pos, Len(regions)))
    /\ UNCHANGED <<regions, municipalities, divisions, original_data, translated_data,
                   driver, site, loaded, table, result, outcome_vars>>

\* finally: self.driver.quit()
\* an exception raised by quit is swallowed
Quit ==
    /\ pc = "quit"
    /\ \E o \in {"ok", "raise"} :
        /\ Strikes(o # "ok", FALSE)
        /\ calls' = Append(calls, [op |-> "quit", ctl |-> "driver", value |-> <<>>,
                                   idx |-> 0, outcome |-> o, fare |-> "", year |-> <<>>,
                                   month |-> 0, region |-> NA, municipality |-> NA,
                                   division |-> NA])
    /\ driver' = "quit"
    /\ pc' = "done"
    /\ ending' = IF ending = "running" THEN "completed" ELSE ending
    /\ UNCHANGED <<fi, pi, ri, mi, di, regions, municipalities, divisions, original_data,
                   translated_data, failed_extractions, fs, save_errors, site, loaded,
                   table, result, interrupted, run_status, tariffs_en, failures, jobs>>

----------------------------------------------------------------------------
(* The state after __init__ *)

\* what an earlier run over the same site left in the output directory
EarlierBatch(s) ==
    IF s.nDivs = 0 THEN <<>>
    ELSE extract_table_data_simplified(s.table, FALSE, Fares[1], <<"R", "1">>,
             <<"M", ".", "1">>, <<"D", " ", "1">>, periods[1].year, periods[1].month)

EarlierFailures(s) ==
    IF s.nRegions = 0 THEN <<>>
    ELSE <<failure_record(Fares[1], <<"R", "1">>, NA, NA, periods[1].year, periods[1].month,
                          SelectError("region"))>>

EarlierFiles(s, kind) ==
    CASE kind = "fresh" -> <<>>
      [] kind = "resumed" ->
            (original_data_file :> [complete |-> TRUE, data |-> EarlierBatch(s)])
            @@ (translated_data_file :>
                    [complete |-> TRUE, data |-> translate_batch(EarlierBatch(s), {}, 2)])
            @@ (failed_extractions_file :> [complete |-> TRUE, data |-> EarlierFailures(s)])
      [] OTHER ->
            (original_data_file :> [complete |-> FALSE, data |-> <<>>])
            @@ (translated_data_file :>
                    [complete |-> TRUE, data |-> translate_batch(EarlierBatch(s), {}, 2)])
            @@ (failed_extractions_file :> [complete |-> TRUE, data |-> EarlierFailures(s)])

\* the output directory an engine is constructed over, and what __init__ loads from it
Loaded(sites, kinds, fault_classes) ==
    /\ site \in sites
    /\ \E kind \in kinds : fs = EarlierFiles(site, kind)
    /\ failed_extractions = load_existing_data(fs, failed_extractions_file)
    /\ original_data = load_existing_data(fs, original_data_file)
    /\ translated_data = load_existing_data(fs, translated_data_file)
    /\ loaded = [readable |-> original_data_file \in DOMAIN fs
                                  /\ fs[original_data_file].complete,
                 data |-> original_data,
                 translated |-> translated_data,
                 failures |-> failed_extractions]
    /\ fi = 1 /\ pi = 1 /\ ri = 1 /\ mi = 1 /\ di = 1
    /\ regions = <<>> /\ municipalities = <<>> /\ divisions = <<>>
    /\ may_fault \in fault_classes
    /\ calls = <<>>
    /\ table = <<>>
    /\ result = <<>>
    /\ save_errors = <<>>
    /\ ending = "running"
    /\ interrupted = FALSE

\* the state after construction, before scrape_all_data
Constructed(sites, kinds, fault_classes) ==
    /\ Loaded(sites, kinds, fault_classes)
    /\ driver = "open"
    /\ pc = "navigate"

\* the engine run on its own (main), with no job and no database
NoJob == run_status = "none" /\ tariffs_en = <<>> /\ failures = <<>> /\ jobs = <<>>

\* a run whose driver can fail
Init ==
    /\ Constructed({ s \in Sites : IsSite(s) }, {"fresh", "resumed"}, {"navigation"})
    /\ NoJob

\* a run over a site of one leaf at most, whose file system and translator can fail
InitStore ==
    /\ Constructed({ s \in Sites : IsSite(s) /\ Product(s.nRegions, s.nMunis, s.nDivs) <= 1 },
                   {"fresh", "resumed", "torn"}, {"storage"})
    /\ NoJob

----------------------------------------------------------------------------
(* The table extractor on its own *)

ThreeRow == <<Cell(<<"Base">>), Cell(<<"$/kWh">>), Cell(<<"0", ".", "9">>)>>
BlankRow == <<Cell(<<>>), Cell(<<" ">>), Cell(<<>>)>>
CommaRow == <<Cell(<<"a">>), Cell(<<"b">>), Cell(<<"Punta">>), Cell(<<" ", "kW">>),
              Cell(<<"1", ",", "2", ",", "3">>)>>

RowPool == {<<>>, ShortRow, ThreeRow, GoodRow(1), BlankRow, CommaRow}

RECURSIVE RowsUpTo(_)
RowsUpTo(n) ==
    IF n = 0 THEN {<<>>}
    ELSE RowsUpTo(n - 1) \cup { Append(t, r) : t \in RowsUpTo(n - 1), r \in RowPool }

\* no tr at all, or a header row and up to MaxRows more rows
ExtractTables == {<<>>} \cup { <<HeaderRow>> \o t : t \in RowsUpTo(MaxRows) }

InitExtract ==
    /\ table \in ExtractTables
    /\ result = <<>>
    /\ pc = "extract_input"
    /\ site = [nRegions |-> 1, nMunis |-> 1, nDivs |-> 1, table |-> <<HeaderRow>>]
    /\ fs = <<>>
    /\ failed_extractions = <<>> /\ original_data = <<>> /\ translated_data = <<>>
    /\ loaded = [readable |-> FALSE, data |-> <<>>, translated |-> <<>>, failures |-> <<>>]
    /\ driver = "open"
    /\ fi = 1 /\ pi = 1 /\ ri = 1 /\ mi = 1 /\ di = 1
    /\ regions = get_available_options(RegionOptions(site), "ok")
    /\ municipalities = get_available_options(MunicipalityOptions(site), "ok")
    /\ divisions = get_available_options(DivisionOptions(site), "ok")
    /\ may_fault = "navigation"
    /\ calls = <<>>
    /\ save_errors = <<>>
    /\ ending = "running"
    /\ interrupted = FALSE
    /\ NoJob

\* one call of extract_table_data_simplified on the rendered table: it runs through,
\* or an exception is raised in its body, or one is raised while extract_clean_text
\* reads one of the three cells of a row
Extract ==
    /\ pc = "extract_input"
    /\ \/ \E raised \in BOOLEAN :
            /\ result' = extract_table_data_simplified(table, raised, fare_type, region_name,
                              municipality_name, division_name, year, month)
            /\ pc' = IF raised THEN "extract_raised" ELSE "extract_output"
       \/ LET rendered == extract_table_data_simplified(table, FALSE, fare_type,
                               region_name, municipality_name, division_name, year, month)
          IN \E k \in 1..Len(rendered), field \in {"post", "units", "tariff_value"} :
                /\ result' = swallowed(rendered, k, field)
                /\ pc' = "extract_cell_raised"
    /\ UNCHANGED <<fi, pi, ri, mi, di, regions, municipalities, divisions, original_data,
                   translated_data, failed_extractions, fs, driver, site, loaded, may_fault,
                   calls, table, save_errors, outcome_vars>>

NextExtract == Extract

SpecExtract == InitExtract /\ [][NextExtract]_vars

----------------------------------------------------------------------------
(* The translation adapter and the database load, each on its own *)

\* app.py: load_json_safe
load_json_safe(f, path) ==
    IF path \in DOMAIN f /\ f[path].complete THEN f[path].data ELSE <<>>

Elements(seq) == { seq[k] : k \in 1..Len(seq) }

\* app.py: the tariffs_en part of persist_to_db_from_json: the rows added are the
\* records whose id is not empty and not stored yet; record_id is unique, so the
\* commit of two rows with one id raises and stores nothing
persist_to_db_from_json(stored, data) ==
    LET NotStored(rid) == rid # <<>> /\ rid \notin Elements(stored)
        rows == SelectSeq([k \in 1..Len(data) |-> data[k].id], NotStored)
        clash == \E i \in 1..Len(rows), j \in 1..Len(rows) : i < j /\ rows[i] = rows[j]
    IN [raised |-> clash, tariffs_en |-> IF clash THEN stored ELSE stored \o rows]

\* the engine's variables while a function is taken on its own
Detached ==
    /\ site = [nRegions |-> 0, nMunis |-> 0, nDivs |-> 0, table |-> <<HeaderRow>>]
    /\ fs = <<>>
    /\ failed_extractions = <<>> /\ original_data = <<>> /\ translated_data = <<>>
    /\ loaded = [readable |-> FALSE, data |-> <<>>, translated |-> <<>>, failures |-> <<>>]
    /\ driver = "open"
    /\ fi = 1 /\ pi = 1 /\ ri = 1 /\ mi = 1 /\ di = 1
    /\ regions = <<>> /\ municipalities = <<>> /\ divisions = <<>>
    /\ may_fault = "none"
    /\ calls = <<>>
    /\ save_errors = <<>>
    /\ ending = "running"
    /\ interrupted = FALSE
    /\ run_status = "none"
    /\ failures = <<>>

RECURSIVE SeqsUpTo(_, _)
SeqsUpTo(S, n) ==
    IF n = 0 THEN {<<>>}
    ELSE SeqsUpTo(S, n - 1) \cup { Append(t, x) : t \in SeqsUpTo(S, n - 1), x \in S }

\* texts of up to MaxText tokens
Texts == SeqsUpTo({" ", "FEBRERO", "kW"}, MaxText)

InitTranslate ==
    /\ Detached
    /\ jobs = <<>>
    /\ tariffs_en = <<>>
    /\ table \in [text : Texts, fails : BOOLEAN]
    /\ result = <<>>
    /\ pc = "translate_input"

\* one call of translate_text
Translate ==
    /\ pc = "translate_input"
    /\ result' = [text |-> translate_text(table.text, table.fails),
                  invoked |-> translator_invoked(table.text)]
    /\ pc' = "translate_output"
    /\ UNCHANGED <<fi, pi, ri, mi, di, regions, municipalities, divisions, original_data,
                   translated_data, failed_extractions, fs, driver, site, loaded, may_fault,
                   calls, table, save_errors, outcome_vars>>

NextTranslate == Translate

SpecTranslate == InitTranslate /\ [][NextTranslate]_vars

\* the ids a file of the engine can hold: an empty one, and ids of records
RecordIds == {<<>>, <<"a">>, <<"b">>, <<"c">>}

\* English files of up to MaxRows records
EnglishFiles == SeqsUpTo([id : RecordIds], MaxRows)

InitPersist ==
    /\ Detached
    /\ jobs = <<>>
    /\ table \in EnglishFiles
    /\ tariffs_en \in {<<>>, <<<<"a">>>>, <<<<"b">>>>, << <<"a">>, <<"b">> >>}
    /\ result = <<>>
    /\ pc = "persist_input"

\* one call of persist_to_db_from_json on the file
Persist ==
    /\ pc = "persist_input"
    /\ LET r == persist_to_db_from_json(tariffs_en, table)
       IN /\ tariffs_en' = r.tariffs_en
          /\ result' = [raised |-> r.raised]
    /\ pc' = "persist_output"
    /\ UNCHANGED <<fi, pi, ri, mi, di, regions, municipalities, divisions, original_data,
                   translated_data, failed_extractions, fs, driver, site, loaded, may_fault,
                   calls, table, save_errors, ending, interrupted, run_status, failures, jobs>>

NextPersist == Persist

SpecPersist == InitPersist /\ [][NextPersist]_vars

----------------------------------------------------------------------------
(* The run *)

Next ==
    \/ Navigate
    \/ SelectYear
    \/ SelectMonth
    \/ GetRegions
    \/ SelectRegion
    \/ GetMunicipalities
    \/ SelectMunicipality
    \/ GetDivisions
    \/ SelectDivision
    \/ ExtractAndSave
    \/ ReselectMunicipality
    \/ ReselectRegion
    \/ Quit

Spec == Init /\ [][Next]_vars

SpecStore == InitStore /\ [][Next]_vars

----------------------------------------------------------------------------
(* The outermost scope of scrape_all_data, and the job that runs the engine *)

TraversalPositions ==
    {"navigate", "year", "month", "regions", "region", "municipalities", "municipality",
     "divisions", "division", "extract", "back_municipality", "back_region"}

\* an outermost scope with no clause for the interrupt
Outermost_NoInterruptClause(exc) ==
    CASE exc = "Exception" -> "failed"
      [] OTHER -> "raised"

\* how the try block ends when exc reaches the outermost scope: the interrupt and the
\* exception are caught and logged, anything else goes on to the caller
Outermost(exc) ==
    CASE exc = "KeyboardInterrupt" -> "interrupted"
      [] exc = "Exception" -> "failed"
      [] OTHER -> "raised"

\* an interrupt after which the session is not released
Interrupt_NoRelease ==
    /\ pc \in TraversalPositions
    /\ may_fault = "run"
    /\ may_fault' = "none"
    /\ interrupted' = TRUE
    /\ ending' = Outermost("KeyboardInterrupt")
    /\ pc' = "done"
    /\ UNCHANGED <<fi, pi, ri, mi, di, regions, municipalities, divisions, original_data,
                   translated_data, failed_extractions, fs, save_errors, driver, site,
                   loaded, calls, table, result, run_status, tariffs_en, failures, jobs>>

\* KeyboardInterrupt raised while the traversal is at any of its steps: no handler of
\* a node catches it, the outermost scope does, and the finally clause follows
Interrupt ==
    /\ pc \in TraversalPositions
    /\ may_fault = "run"
    /\ may_fault' = "none"
    /\ interrupted' = TRUE
    /\ ending' = Outermost("KeyboardInterrupt")
    /\ pc' = "quit"
    /\ UNCHANGED <<fi, pi, ri, mi, di, regions, municipalities, divisions, original_data,
                   translated_data, failed_extractions, fs, save_errors, driver, site,
                   loaded, calls, table, result, run_status, tariffs_en, failures, jobs>>

\* KeyboardInterrupt raised while extract_clean_text reads a cell of the table: the
\* bare except swallows it, the extractor returns and the leaf is processed as usual
ExtractInterrupted ==
    /\ pc = "extract"
    /\ may_fault = "run"
    /\ may_fault' = "none"
    /\ interrupted' = TRUE
    /\ \E rendered \in {extract_table_data_simplified(site.table, FALSE, fare_type,
                            region_name, municipality_name, division_name, year, month)} :
          /\ rendered # <<>>
          /\ \E k \in 1..Len(rendered), field \in {"post", "units", "tariff_value"} :
              \E table_data \in {swallowed(rendered, k, field)} :
              \E a \in {append_and_save_data(original_data, translated_data, fs,
                             table_data, fare_type, region_name, municipality_name,
                             division_name, year, month, {})} :
                   /\ original_data' = a.original_data
                   /\ translated_data' = a.translated_data
                   /\ fs' = a.fs
                   /\ calls' = Append(calls, Call("extract", "table", <<>>, Len(table_data),
                                       "ok", region_name, municipality_name, division_name))
    /\ Goto([Pos EXCEPT !.pc = "back_municipality"])
    /\ UNCHANGED <<regions, municipalities, divisions, failed_extractions, save_errors,
                   driver, site, loaded, table, result, ending, run_status, tariffs_en, failures, jobs>>

\* KeyboardInterrupt raised inside append_and_save_data, between two of its
\* statements: no `except Exception` of the store or of a node catches it, the
\* outermost scope does
AppendInterrupted ==
    /\ pc = "extract"
    /\ may_fault = "run"
    /\ may_fault' = "none"
    /\ interrupted' = TRUE
    /\ ending' = Outermost("KeyboardInterrupt")
    /\ \E table_data \in {extract_table_data_simplified(site.table, FALSE, fare_type,
                               region_name, municipality_name, division_name, year, month)} :
          /\ table_data # <<>>
          /\ \E at \in 1..4 :
              \E a \in {append_and_save_data_until(original_data, translated_data, fs,
                             table_data, fare_type, region_name, municipality_name,
                             division_name, year, month, at)} :
                   /\ original_data' = a.original_data
                   /\ translated_data' = a.translated_data
                   /\ fs' = a.fs
          /\ calls' = Append(calls, Call("extract", "table", <<>>, Len(table_data),
                                         "ok", region_name, municipality_name, division_name))
    /\ Goto([Pos EXCEPT !.pc = "quit"])
    /\ UNCHANGED <<regions, municipalities, divisions, failed_extractions, save_errors,
                   driver, site, loaded, table, result, run_status, tariffs_en, failures, jobs>>

\* an exception raised by a statement of the fare and period loops that no try of a
\* period encloses
RunLevelFailure ==
    /\ pc = "navigate"
    /\ may_fault = "run"
    /\ may_fault' = "none"
    /\ ending' = Outermost("Exception")
    /\ pc' = "quit"
    /\ UNCHANGED <<fi, pi, ri, mi, di, regions, municipalities, divisions, original_data,
                   translated_data, failed_extractions, fs, save_errors, driver, site,
                   loaded, calls, table, result, interrupted, run_status, tariffs_en, failures, jobs>>

\* app.py: the failures part of persist_to_db_from_json: one row per entry of the
\* failure file, added to the rows already stored
persist_failures(stored, fails) == stored \o fails

excel_path == <<"english_tariff_latest.xlsx">>

\* app.py: make_excel_from_en_json: the rows of the English file, sorted for
\* readability (the row order is not modelled: the sheet holds the set of rows)
make_excel_from_en_json(f, en_json_path, excel_out, outcome) ==
    IF outcome = "ok"
    THEN (excel_out :> [complete |-> TRUE, data |-> Elements(load_json_safe(f, en_json_path))])
         @@ f
    ELSE f

\* app.py: run_scraper_job: the background task starts and marks the run running
StartJob ==
    /\ pc = "queued"
    /\ run_status = "queued"
    /\ run_status' = "running"
    /\ pc' = "construct"
    /\ UNCHANGED <<fi, pi, ri, mi, di, regions, municipalities, divisions, original_data,
                   translated_data, failed_extractions, fs, save_errors, driver, site,
                   loaded, may_fault, calls, table, result, ending, interrupted,
                   tariffs_en, failures, jobs>>

\* app.py: run_scraper_job: CFETariffScraperSimplified(out_dir, headless): the
\* collections are loaded and the browser session is opened; an exception of
\* setup_driver reaches the except clause of the job, which marks the run failed
Construct ==
    /\ pc = "construct"
    /\ \E o \in {"ok", "raise"} :
        /\ Strikes(o # "ok", FALSE)
        /\ driver' = IF o = "ok" THEN "open" ELSE driver
        /\ pc' = IF o = "ok" THEN "navigate" ELSE "not_constructed"
        /\ run_status' = IF o = "ok" THEN run_status ELSE "failed"
    /\ UNCHANGED <<fi, pi, ri, mi, di, regions, municipalities, divisions, original_data,
                   translated_data, failed_extractions, fs, save_errors, site,
                   loaded, calls, table, result, ending, interrupted,
                   tariffs_en, failures, jobs>>

\* app.py: run_scraper_job after scrape_all_data returned: persist_to_db_from_json;
\* an exception marks the run failed
PersistToDb ==
    /\ pc = "done"
    /\ run_status = "running"
    /\ ending # "raised"
    /\ LET r == persist_to_db_from_json(tariffs_en,
                                        load_json_safe(fs, translated_data_file))
       IN /\ tariffs_en' = r.tariffs_en
          /\ failures' = IF r.raised THEN failures
                         ELSE persist_failures(failures,
                                               load_json_safe(fs, failed_extractions_file))
          /\ run_status' = IF r.raised THEN "failed" ELSE run_status
          /\ pc' = IF r.raised THEN "job_done" ELSE "persisted"
    /\ UNCHANGED <<fi, pi, ri, mi, di, regions, municipalities, divisions, original_data,
                   translated_data, failed_extractions, fs, save_errors, driver, site,
                   loaded, may_fault, calls, table, result, ending, interrupted, jobs>>

\* a job that marks the run succeeded as soon as the scraper has returned
FinishJob_BeforePersist ==
    /\ pc = "done"
    /\ run_status = "running"
    /\ run_status' = "succeeded"
    /\ pc' = "job_done"
    /\ UNCHANGED <<fi, pi, ri, mi, di, regions, municipalities, divisions, original_data,
                   translated_data, failed_extractions, fs, save_errors, driver, site,
                   loaded, may_fault, calls, table, result, ending, interrupted,
                   tariffs_en, failures, jobs>>

\* app.py: run_scraper_job: the spreadsheet is built and the run marked succeeded;
\* an exception of the build marks the run failed
FinishJob ==
    /\ pc = "persisted"
    /\ \E o \in {"ok", "raise"} :
        /\ Strikes(FALSE, o # "ok")
        /\ fs' = make_excel_from_en_json(fs, translated_data_file, excel_path, o)
        /\ run_status' = IF o = "ok" THEN "succeeded" ELSE "failed"
    /\ pc' = "job_done"
    /\ UNCHANGED <<fi, pi, ri, mi, di, regions, municipalities, divisions, original_data,
                   translated_data, failed_extractions, save_errors, driver, site,
                   loaded, calls, table, result, ending, interrupted,
                   tariffs_en, failures, jobs>>

\* a job queued by start_scrape over a site of one leaf at most; the run can be
\* struck by an interrupt or a run-level exception, by a fault of the driver, or by
\* a fault of the file system or the translator
InitJob ==
    /\ Loaded({ s \in Sites : IsSite(s) /\ Product(s.nRegions, s.nMunis, s.nDivs) <= 1 },
              {"fresh", "resumed"}, {"run", "navigation", "storage"})
    /\ driver = "none"
    /\ pc = "queued"
    /\ run_status = "queued"
    /\ tariffs_en \in {<<>>, [k \in 1..Len(translated_data) |-> translated_data[k].id]}
    /\ failures = <<>>
    /\ jobs = <<>>

NextJob ==
    \/ StartJob
    \/ Construct
    \/ Next
    \/ Interrupt
    \/ ExtractInterrupted
    \/ AppendInterrupted
    \/ RunLevelFailure
    \/ PersistToDb
    \/ FinishJob

SpecJob == InitJob /\ [][NextJob]_vars

\* the background task runs every step it has started to its end
SpecJobLive == SpecJob /\ WF_vars(NextJob)

----------------------------------------------------------------------------
(* Two jobs on one output directory *)

\* app.py: start_scrape queues a run and hands run_scraper_job to the background
\* tasks; the task of a second request starts while the first is running, and
\* nothing keeps the two apart
JobIds == {1, 2}

\* the site both traversals walk: the divisions of one municipality, one data row each
JobSite == [nRegions |-> 1, nMunis |-> 1, nDivs |-> MaxLeaves, table |-> <<HeaderRow, GoodRow(2)>>]

JobRegion == get_available_options(RegionOptions(JobSite), "ok")[1].text
JobMunicipality == get_available_options(MunicipalityOptions(JobSite), "ok")[1].text
JobDivision(k) == get_available_options(DivisionOptions(JobSite), "ok")[k].text

\* what extract_table_data_simplified returns at leaf k when the table is rendered
JobBatch(k) ==
    extract_table_data_simplified(JobSite.table, FALSE, Fares[1], JobRegion, JobMunicipality,
                                  JobDivision(k), periods[1].year, periods[1].month)

\* the failure tracked at leaf k when no data is extracted
JobFailure(k) ==
    failure_record(Fares[1], JobRegion, JobMunicipality, JobDivision(k), periods[1].year,
                   periods[1].month, <<"No table data extracted">>)

\* a run queued by start_scrape: its engine does not exist yet; appended and recorded
\* keep what the job's engine appended and tracked
QueuedJob ==
    [pc |-> "queued", status |-> "queued", leaf |-> 1,
     original_data |-> <<>>, translated_data |-> <<>>, failed_extractions |-> <<>>,
     appended |-> <<>>, recorded |-> <<>>]

\* the variables of the single engine stay as they are
OneEngineUnchanged ==
    UNCHANGED <<pc, fi, pi, ri, mi, di, regions, municipalities, divisions, original_data,
                translated_data, failed_extractions, save_errors, driver, site, loaded,
                may_fault, calls, table, result, ending, interrupted, run_status>>

\* run_scraper_job: the task of job j starts and marks its run running
JobStart(j) ==
    /\ jobs[j].pc = "queued"
    /\ jobs' = [jobs EXCEPT ![j].pc = "construct", ![j].status = "running"]
    /\ UNCHANGED <<fs, tariffs_en, failures>>
    /\ OneEngineUnchanged

\* run_scraper_job: CFETariffScraperSimplified(out_dir, headless): the engine of job j
\* loads its own collections from the files as they are now; an exception of
\* setup_driver marks the run failed
JobConstruct(j) ==
    /\ jobs[j].pc = "construct"
    /\ \E o \in {"ok", "raise"} :
        jobs' = IF o = "ok"
                THEN [jobs EXCEPT ![j].pc = "leaf",
                        ![j].failed_extractions = load_existing_data(fs, failed_extractions_file),
                        ![j].original_data = load_existing_data(fs, original_data_file),
                        ![j].translated_data = load_existing_data(fs, translated_data_file)]
                ELSE [jobs EXCEPT ![j].pc = "job_done", ![j].status = "failed"]
    /\ UNCHANGED <<fs, tariffs_en, failures>>
    /\ OneEngineUnchanged

\* where job j goes after leaf k
AfterLeaf(k) == IF k < JobSite.nDivs THEN "leaf" ELSE "done"

\* scrape_all_data of job j at its next leaf: the batch is extracted and
\* append_and_save_data extends the job's collections and rewrites the consolidated
\* files from them, or nothing is extracted and track_failure extends the job's
\* failure list and rewrites the failure file from it
JobLeaf(j) ==
    /\ jobs[j].pc = "leaf"
    /\ \E k \in {jobs[j].leaf}, extracted \in BOOLEAN :
        IF extracted
        THEN \E a \in {append_and_save_data(jobs[j].original_data, jobs[j].translated_data,
                            fs, JobBatch(k), Fares[1], JobRegion, JobMunicipality,
                            JobDivision(k), periods[1].year, periods[1].month, {})} :
                /\ fs' = a.fs
                /\ jobs' = [jobs EXCEPT ![j].pc = AfterLeaf(k), ![j].leaf = k + 1,
                                ![j].original_data = a.original_data,
                                ![j].translated_data = a.translated_data,
                                ![j].appended = @ \o JobBatch(k)]
        ELSE \E t \in {track_failure(jobs[j].failed_extractions, fs, JobFailure(k), WriteOk)} :
                /\ fs' = t.fs
                /\ jobs' = [jobs EXCEPT ![j].pc = AfterLeaf(k), ![j].leaf = k + 1,
                                ![j].failed_extractions = t.failed,
                                ![j].recorded = Append(@, JobFailure(k))]
    /\ UNCHANGED <<tariffs_en, failures>>
    /\ OneEngineUnchanged

\* run_scraper_job of job j after scrape_all_data returned: the files are stored in
\* the database and the spreadsheet is built, and the run is marked succeeded; an
\* exception of the insert marks it failed
JobFinish(j) ==
    /\ jobs[j].pc = "done"
    /\ \E r \in {persist_to_db_from_json(tariffs_en, load_json_safe(fs, translated_data_file))} :
        /\ tariffs_en' = r.tariffs_en
        /\ failures' = IF r.raised THEN failures
                       ELSE persist_failures(failures,
                                             load_json_safe(fs, failed_extractions_file))
        /\ fs' = IF r.raised THEN fs
                 ELSE make_excel_from_en_json(fs, translated_data_file, excel_path, "ok")
        /\ jobs' = [jobs EXCEPT ![j].pc = "job_done",
                        ![j].status = IF r.raised THEN "failed" ELSE "succeeded"]
    /\ OneEngineUnchanged

\* two runs queued on an empty output directory
InitTwoJobs ==
    /\ Detached
    /\ tariffs_en = <<>>
    /\ table = <<>>
    /\ result = <<>>
    /\ pc = "two_jobs"
    /\ jobs = [j \in JobIds |-> QueuedJob]

NextTwoJobs ==
    \E j \in JobIds :
        \/ JobStart(j)
        \/ JobConstruct(j)
        \/ JobLeaf(j)
        \/ JobFinish(j)

SpecTwoJobs == InitTwoJobs /\ [][NextTwoJobs]_vars

----------------------------------------------------------------------------
(* Properties *)

NoDuplicateIds(records) ==
    \A i \in 1..Len(records), j \in 1..Len(records) : i < j => records[i].id # records[j].id

LeafOf(c) == <<c.fare, c.year, c.month, c.region, c.municipality, c.division>>
MunicipalityOf(c) == <<c.fare, c.year, c.month, c.region, c.municipality>>
RegionOf(c) == <<c.fare, c.year, c.month, c.region>>
PeriodOf(c) == <<c.fare, c.year, c.month>>

SameContext(rec, fare, r, m, d, y, mo) ==
    /\ rec.fare_type = fare /\ rec.region = r /\ rec.municipality = m
    /\ rec.division = d /\ rec.year = y /\ rec.month = mo

\* the step made a call, and this is it
Called == Len(calls') = Len(calls) + 1
NewCall == calls'[Len(calls')]

ConsolidatedFiles ==
    [f \in {original_data_file, translated_data_file} \cap DOMAIN fs |-> fs[f]]

\* C1: within one run started with empty collections, no two records of the
\* consolidated original-language collection have the same id.
C1_UniqueIdsWithinRun ==
    loaded.data = <<>> => NoDuplicateIds(original_data)

\* C2: a run over the files of an earlier run does not append a record whose id
\* the loaded collection already holds.
C2_LoadedIdNotAppendedAgain ==
    \A j \in (Len(loaded.data) + 1)..Len(original_data), k \in 1..Len(loaded.data) :
        original_data[j].id # loaded.data[k].id

\* C3: the records the extractor returns carry the row indices 1, 2, ..., n in
\* their ids, n the number of emitted records.
C3_RowIndexCountsEmittedRows ==
    pc = "extract_output" =>
        \A k \in 1..Len(result) :
            result[k].id = Join6(region_name, municipality_name, division_name, year,
                                 Str(month), Str(k))

\* C4: in one run every leaf (fare, year, month, region, municipality, division)
\* has extraction attempted at most once.
C4_LeafExtractedAtMostOnce ==
    LET Extracts == { i \in 1..Len(calls) : calls[i].op = "extract" }
    IN  \A i \in Extracts, j \in Extracts :
            i < j => LeafOf(calls[i]) # LeafOf(calls[j])

\* a finished run that extracted two leaves under one fare and one leaf under two fares
C4_Witness ==
    /\ pc = "done"
    /\ \E i \in 1..Len(calls), j \in 1..Len(calls) :
          /\ calls[i].op = "extract" /\ calls[j].op = "extract"
          /\ calls[i].fare = calls[j].fare /\ LeafOf(calls[i]) # LeafOf(calls[j])
    /\ \E i \in 1..Len(calls), j \in 1..Len(calls) :
          /\ calls[i].op = "extract" /\ calls[j].op = "extract"
          /\ calls[i].fare # calls[j].fare
          /\ calls[i].region = calls[j].region
          /\ calls[i].municipality = calls[j].municipality
          /\ calls[i].division = calls[j].division

\* the position the traversal descends to after a successful selection
SubtreeEntry(ctl) ==
    CASE ctl = "ddAnio" -> "month"
      [] ctl = "ddMesConsulta" -> "regions"
      [] ctl = "ddEstado" -> "municipalities"
      [] ctl = "ddMunicipio" -> "divisions"
      [] OTHER -> "extract"

\* C5: at every level (year, month, region, municipality, division) a selection
\* that returns failure appends exactly one FailureRecord scoped to the current
\* partial context, and the child's subtree is not descended into.
C5_FailedSelectionIsRecorded ==
    [][(Called /\ NewCall.op = "select" /\ NewCall.outcome = "false")
        => /\ Len(failed_extractions') = Len(failed_extractions) + 1
           /\ SubSeq(failed_extractions', 1, Len(failed_extractions)) = failed_extractions
           /\ SameContext(failed_extractions'[Len(failed_extractions')], NewCall.fare,
                          NewCall.region, NewCall.municipality, NewCall.division,
                          NewCall.year, NewCall.month)
           /\ pc' # SubtreeEntry(NewCall.ctl)]_vars

ParentControl(ctl) ==
    CASE ctl = "ddDivision" -> "ddMunicipio"
      [] ctl = "ddMunicipio" -> "ddEstado"
      [] OTHER -> "ddMesConsulta"

\* C6: at every level the selection of a next sibling is preceded by the
\* reselection of the parent's own value in the parent control.
C6_ParentReselectedBeforeNextSibling ==
    \A j \in 2..Len(calls) :
        (/\ calls[j].op = "select"
         /\ calls[j].ctl \in {"ddEstado", "ddMunicipio", "ddDivision"}
         /\ calls[j].idx > 1)
        => /\ calls[j - 1].op \in {"select", "reselect"}
           /\ calls[j - 1].ctl = ParentControl(calls[j].ctl)
           /\ PeriodOf(calls[j - 1]) = PeriodOf(calls[j])
           /\ calls[j].ctl = "ddMunicipio" => RegionOf(calls[j - 1]) = RegionOf(calls[j])
           /\ calls[j].ctl = "ddDivision" =>
                 MunicipalityOf(calls[j - 1]) = MunicipalityOf(calls[j])

\* the failure entries that carry the context of call c
EntriesFor(c) ==
    { k \in 1..Len(failed_extractions) :
        SameContext(failed_extractions[k], c.fare, c.region, c.municipality, c.division,
                    c.year, c.month) }

\* the extractor has just returned zero rows for the selected division
ZeroRowsStep == pc = "extract" /\ Called /\ NewCall.op = "extract" /\ NewCall.idx = 0

\* C7: zero rows at a selected division append exactly one FailureRecord carrying
\* the leaf's fare, region, municipality, division, year and month, and leave the
\* two consolidated collections and their files unchanged.
C7_ZeroRowsRecordedOnce ==
    /\ [][ZeroRowsStep
            => /\ Len(failed_extractions') = Len(failed_extractions) + 1
               /\ SubSeq(failed_extractions', 1, Len(failed_extractions)) = failed_extractions
               /\ SameContext(failed_extractions'[Len(failed_extractions')], fare_type,
                              region_name, municipality_name, division_name, year, month)
               /\ original_data' = original_data
               /\ translated_data' = translated_data
               /\ ConsolidatedFiles' = ConsolidatedFiles]_vars
    /\ [](LET ZeroRows == { j \in 1..Len(calls) :
                                calls[j].op = "extract" /\ calls[j].idx = 0 }
           IN  \A j \in ZeroRows : Cardinality(EntriesFor(calls[j])) = 1)

\* a leaf whose extraction raised, after an earlier leaf was appended
C7_Witness ==
    /\ pc = "back_municipality"
    /\ calls[Len(calls)].op = "extract"
    /\ calls[Len(calls)].idx = 0
    /\ Len(original_data) > Len(loaded.data)
    /\ Cardinality(EntriesFor(calls[Len(calls)])) = 1

\* the enumerator has just returned zero divisions for the selected municipality
ZeroDivisionsStep ==
    /\ pc = "divisions" /\ Called
    /\ NewCall.op = "options" /\ NewCall.outcome # "raise" /\ NewCall.idx = 0

\* C8: zero divisions under a selected municipality append exactly one
\* FailureRecord with the municipality's name and division "N/A", no extraction is
\* attempted for the municipality, and the traversal goes on to the next one.
C8_ZeroDivisionsRecorded ==
    /\ [][ZeroDivisionsStep
            => /\ Len(failed_extractions') = Len(failed_extractions) + 1
               /\ SubSeq(failed_extractions', 1, Len(failed_extractions)) = failed_extractions
               /\ SameContext(failed_extractions'[Len(failed_extractions')], fare_type,
                              region_name, municipality_name, NA, year, month)
               /\ mi < Len(municipalities)
                    => /\ pc' = "municipality" /\ mi' = mi + 1
                       /\ ri' = ri /\ pi' = pi /\ fi' = fi]_vars
    /\ [](LET ZeroDivisions == { j \in 1..Len(calls) :
                                    /\ calls[j].op = "options" /\ calls[j].ctl = "ddDivision"
                                    /\ calls[j].outcome # "raise" /\ calls[j].idx = 0 }
               LeafCalls == { e \in 1..Len(calls) :
                                /\ calls[e].op \in {"extract", "select"}
                                /\ calls[e].ctl \in {"table", "ddDivision"} }
           IN  \A j \in ZeroDivisions, e \in LeafCalls :
                    MunicipalityOf(calls[e]) # MunicipalityOf(calls[j]))

\* the first of two municipalities had no divisions and the second is being selected
C8_Witness ==
    /\ pc = "municipality" /\ mi = 2
    /\ calls[Len(calls)].op = "options" /\ calls[Len(calls)].ctl = "ddDivision"
    /\ calls[Len(calls)].idx = 0
    /\ failed_extractions[Len(failed_extractions)].division = NA
    /\ failed_extractions[Len(failed_extractions)].municipality = municipalities[1].text

\* the items a successful enumeration under context c listed were all selected
AllSelected(c) ==
    \A k \in 1..c.idx :
        \E j \in 1..Len(calls) :
            /\ calls[j].op = "select" /\ calls[j].ctl = c.ctl /\ calls[j].idx = k
            /\ PeriodOf(calls[j]) = PeriodOf(c)
            /\ c.ctl \in {"ddMunicipio", "ddDivision"} => calls[j].region = c.region
            /\ c.ctl = "ddDivision" => calls[j].municipality = c.municipality

\* C9: however the processing of a division, municipality or region ends, every
\* remaining sibling under the same parent is still attempted.
C9_EverySiblingAttempted ==
    pc = "done" =>
        \A i \in 1..Len(calls) :
            (calls[i].op = "options" /\ calls[i].outcome # "raise") => AllSelected(calls[i])

\* C10: over readable consolidated files of K records, the in-memory collection and
\* the file hold at least K records at every point, the K loaded ones as a prefix.
C10_LoadedRecordsKept ==
    loaded.readable =>
        /\ Len(original_data) >= Len(loaded.data)
        /\ SubSeq(original_data, 1, Len(loaded.data)) = loaded.data
        /\ original_data_file \in DOMAIN fs
        /\ Len(fs[original_data_file].data) >= Len(loaded.data)
        /\ SubSeq(fs[original_data_file].data, 1, Len(loaded.data)) = loaded.data

IsPrefix(a, b) == Len(a) <= Len(b) /\ SubSeq(b, 1, Len(a)) = a

Ids(records) == [k \in 1..Len(records) |-> records[k].id]

\* the step appended a batch to the consolidated collections
AppendStep == pc = "extract" /\ Len(original_data') > Len(original_data)

\* the batch the selected leaf renders
LeafBatch ==
    extract_table_data_simplified(site.table, FALSE, fare_type, region_name,
                                  municipality_name, division_name, year, month)

\* save_json_data logged no error for the file in this step
Flushed(file) ==
    \A k \in (Len(save_errors) + 1)..Len(save_errors') : save_errors'[k] # file

\* C11: every append extends both in-memory collections by the leaf's batch whether
\* or not its writes succeed, a consolidated write that succeeds leaves the file equal
\* to the whole in-memory collection, and the traversal goes on to the next step.
C11_FlushWritesWholeCollection ==
    [][AppendStep
        => /\ original_data' = original_data \o LeafBatch
           /\ Len(translated_data') = Len(translated_data) + Len(LeafBatch)
           /\ IsPrefix(translated_data, translated_data')
           /\ Ids(SubSeq(translated_data', Len(translated_data) + 1, Len(translated_data')))
                = Ids(LeafBatch)
           /\ Flushed(original_data_file)
                => fs'[original_data_file] = [complete |-> TRUE, data |-> original_data']
           /\ Flushed(translated_data_file)
                => fs'[translated_data_file] = [complete |-> TRUE, data |-> translated_data']
           /\ pc' = "back_municipality"]_vars

\* a finished run in which a flush of the original-language file failed and a later
\* flush wrote the whole collection, the batch of the failed flush included
C11_Witness ==
    /\ pc = "done"
    /\ \E k \in 1..Len(save_errors) : save_errors[k] = original_data_file
    /\ original_data_file \in DOMAIN fs
    /\ fs[original_data_file] = [complete |-> TRUE, data |-> original_data]
    /\ Len(original_data) >= Len(loaded.data) + 2

\* C12: whatever write fails, each consolidated file holds a complete collection,
\* the in-memory collection as of some completed flush.
C12_ConsolidatedFilesComplete ==
    /\ translated_data_file \in DOMAIN fs
         => /\ fs[translated_data_file].complete
            /\ IsPrefix(fs[translated_data_file].data, translated_data)
    /\ loaded.readable
         => /\ fs[original_data_file].complete
            /\ IsPrefix(fs[original_data_file].data, original_data)

\* C13: once an interrupt has been raised from outside, no further selection,
\* extraction, append or failure entry happens, the session is released and
\* scrape_all_data returns.
C13_InterruptStopsTraversal ==
    /\ [][interrupted
            => /\ original_data' = original_data
               /\ translated_data' = translated_data
               /\ failed_extractions' = failed_extractions
               /\ Called => NewCall.op = "quit"]_vars
    /\ []((interrupted /\ pc \notin TraversalPositions \cup {"quit"})
            => (driver = "quit" /\ ending = "interrupted"))

\* C14: a run that ended with a run-level failure leaves its job in status "failed".
C14_RunLevelFailureFailsJob ==
    (ending = "failed" /\ pc = "job_done") => run_status = "failed"

\* C15: scrape_all_data returns normally whatever exception or interrupt arises in
\* a step: no ending of the try block goes on to the caller.
C15_NeverPropagates ==
    /\ ending \in {"running", "completed", "interrupted", "failed"}
    /\ pc \in {"done", "persisted", "job_done"} => ending # "running"

\* scrape_all_data has returned after an interrupt that arrived in mid-traversal
C15_Witness ==
    /\ pc = "done"
    /\ ending = "interrupted"
    /\ Len(calls) > 4

\* C16: on every way a run ends (completion, run-level exception, interrupt) the
\* release of the browser session is attempted exactly once, after the last step of
\* the traversal, and an error of the release is swallowed.
C16_SessionReleasedOnce ==
    LET Quits == { i \in 1..Len(calls) : calls[i].op = "quit" }
    IN /\ pc \in TraversalPositions \cup {"quit"} => (Quits = {} /\ driver = "open")
       /\ pc \in {"done", "persisted", "job_done"}
            => /\ Quits = {Len(calls)}
               /\ driver = "quit"
               /\ ending \in {"completed", "interrupted", "failed"}

\* a run that completed although the release raised
C16_Witness ==
    /\ pc = "done"
    /\ calls[Len(calls)].op = "quit"
    /\ calls[Len(calls)].outcome = "raise"
    /\ ending = "completed"
    /\ driver = "quit"

\* the traversal node a FailureRecord is filed under
NodeOf(rec) ==
    <<rec.fare_type, rec.year, rec.month, rec.region, rec.municipality, rec.division>>

\* C17: every failure-tracking call appends exactly one entry at the end of the log
\* and flushes the whole log, no earlier entry (the loaded ones included) is ever
\* changed or removed, and the entries of one run are filed under distinct nodes.
C17_FailureLogAppendOnly ==
    /\ [][failed_extractions' # failed_extractions
            => /\ Len(failed_extractions') = Len(failed_extractions) + 1
               /\ IsPrefix(failed_extractions, failed_extractions')
               /\ Flushed(failed_extractions_file)
                    => fs'[failed_extractions_file]
                         = [complete |-> TRUE, data |-> failed_extractions']
               /\ pc' \in TraversalPositions \cup {"quit"}]_vars
    /\ [](/\ IsPrefix(loaded.failures, failed_extractions)
          /\ \A i \in (Len(loaded.failures) + 1)..Len(failed_extractions),
                j \in (Len(loaded.failures) + 1)..Len(failed_extractions) :
                i < j => NodeOf(failed_extractions[i]) # NodeOf(failed_extractions[j]))

\* a finished run that added two entries to a loaded log and flushed all of them
C17_Witness ==
    /\ pc = "done"
    /\ loaded.failures # <<>>
    /\ Len(failed_extractions) >= Len(loaded.failures) + 2
    /\ fs[failed_extractions_file] = [complete |-> TRUE, data |-> failed_extractions]

\* C18: the adapter returns blank text unchanged without invoking the remote
\* translator, and returns non-blank text unchanged when the remote translator fails.
C18_TranslatePassThrough ==
    pc = "translate_output" =>
        /\ Strip(table.text) = <<>> => (result.text = table.text /\ ~result.invoked)
        /\ (Strip(table.text) # <<>> /\ table.fails) => result.text = table.text

\* the adapter has answered for a non-blank text the remote translator failed on
C18_Witness ==
    /\ pc = "translate_output"
    /\ table.fails
    /\ table.text = <<" ", "FEBRERO">>
    /\ result.text = table.text

\* C20: for any content of the English file and any stored rows, the load completes
\* without error and the tariffs table holds at most one row per record id.
C20_PersistDeduplicates ==
    pc = "persist_output" =>
        /\ ~result.raised
        /\ \A i \in 1..Len(tariffs_en), j \in 1..Len(tariffs_en) :
              i < j => tariffs_en[i] # tariffs_en[j]

\* the non-header rows of the table that have at least three data cells, in row order
DataRows(rows) ==
    LET HasThree(row) == Len(row) >= 3
    IN SelectSeq(SubSeq(rows, 2, Len(rows)), HasThree)

\* C21: the extractor returns the empty sequence for a table of fewer than two rows
\* and whenever an exception occurs; otherwise it returns, in row order, one record
\* per non-header row of at least three data cells, with post, units and tariff value
\* read from the row's last three cells and every comma removed from the value.
C21_ExtractorFunction ==
    /\ pc \in {"extract_raised", "extract_cell_raised"} => result = <<>>
    /\ pc = "extract_output" =>
          IF Len(table) < 2 THEN result = <<>>
          ELSE /\ Len(result) = Len(DataRows(table))
               /\ \A k \in 1..Len(result) :
                     LET row == DataRows(table)[k]
                     IN /\ result[k].post = extract_clean_text(row[Len(row) - 2])
                        /\ result[k].units = extract_clean_text(row[Len(row) - 1])
                        /\ result[k].tariff_value
                             = Remove(extract_clean_text(row[Len(row)]), ",")
                        /\ ~Contains(result[k].tariff_value, ",")

\* C22: the FailureRecord of a failed extraction at a division leaf tells the cause:
\* its error is the "no table data extracted" message when the extractor found zero
\* rows, and the captured exception text when the extractor failed with an exception.
C22_FailureCauseDistinguished ==
    [][ZeroRowsStep
        => /\ Len(failed_extractions') = Len(failed_extractions) + 1
           /\ NewCall.outcome = "ok"
                => failed_extractions'[Len(failed_extractions')].error
                     = <<"No table data extracted">>
           /\ NewCall.outcome = "raise"
                => failed_extractions'[Len(failed_extractions')].error = ExceptionText]_vars

\* what the database and the output directory show once the English file and the
\* failure file have been loaded into the tables and the spreadsheet built from the
\* English file
PersistedAndBuilt ==
    /\ \A k \in 1..Len(load_json_safe(fs, translated_data_file)) :
          LET rid == load_json_safe(fs, translated_data_file)[k].id
          IN rid # <<>> => rid \in Elements(tariffs_en)
    /\ Elements(load_json_safe(fs, failed_extractions_file)) \subseteq Elements(failures)
    /\ excel_path \in DOMAIN fs
    /\ fs[excel_path].data = Elements(load_json_safe(fs, translated_data_file))

\* C23: the status of a run moves only queued -> running -> succeeded or
\* queued -> running -> failed, succeeded and failed never change, a run that became
\* running ends succeeded or failed, and a run is succeeded only after the scraper
\* returned, the records and failures were stored and the spreadsheet was built.
C23_RunStatusLifecycle ==
    /\ [][run_status' # run_status
            => <<run_status, run_status'>> \in { <<"queued", "running">>,
                                                 <<"running", "succeeded">>,
                                                 <<"running", "failed">> }]_vars
    /\ [](run_status = "succeeded"
            => /\ pc = "job_done"
               /\ ending \in {"completed", "interrupted", "failed"}
               /\ driver = "quit"
               /\ PersistedAndBuilt)
    /\ (run_status = "running" ~> run_status \in {"succeeded", "failed"})

\* a run that succeeded with records and failures stored and the spreadsheet built
C23_Witness ==
    /\ run_status = "succeeded"
    /\ tariffs_en # <<>>
    /\ failures # <<>>
    /\ excel_path \in DOMAIN fs
    /\ fs[excel_path].data # {}

\* the extractor has been called for the selected division and the processing of
\* the leaf has come to its end
LeafEnds == pc = "extract" /\ Called /\ NewCall.op = "extract" /\ ending' = "running"

\* the records the step appended to a collection
Added(before, after) == SubSeq(after, Len(before) + 1, Len(after))

FileIds(file) == Ids(load_existing_data(fs, file))

\* C25: when the two consolidated collections are loaded with the same ids, then
\* wherever the run ends (completion, run-level failure, interrupt) the two in-memory
\* collections hold the same ids in the same order, and so do the two files.
C25_CollectionsAligned ==
    (Ids(loaded.data) = Ids(loaded.translated) /\ pc = "done")
        => /\ Ids(original_data) = Ids(translated_data)
           /\ FileIds(original_data_file) = FileIds(translated_data_file)

\* the per-leaf English file of the selected leaf
LeafEnglishFile ==
    individual_file(fare_type, region_name, municipality_name, division_name, year, month,
                    "_english.json")

\* C26: for a leaf whose batch is appended, the translated records written to the
\* leaf's English file are the translated records appended for the leaf to the
\* consolidated English collection, whichever translations succeed or fail.
C26_LeafFileMatchesConsolidated ==
    [][(/\ AppendStep
        /\ LeafEnglishFile \in DOMAIN fs'
        /\ fs'[LeafEnglishFile].complete)
        => fs'[LeafEnglishFile].data = Added(translated_data, translated_data')]_vars

\* both jobs have finished
BothFinished == \A j \in JobIds : jobs[j].pc = "job_done"

\* C27: when two jobs run at the same time on the same output directory, once both
\* have finished the consolidated files contain every record either job appended and
\* the failure file every failure either job recorded.
C27_NoAppendedBatchLost ==
    BothFinished =>
        \A j \in JobIds :
            /\ Elements(jobs[j].appended)
                  \subseteq Elements(load_existing_data(fs, original_data_file))
            /\ Elements(translate_batch(jobs[j].appended, {}, 2))
                  \subseteq Elements(load_existing_data(fs, translated_data_file))
            /\ Elements(jobs[j].recorded)
                  \subseteq Elements(load_existing_data(fs, failed_extractions_file))

IsGet(c) == c.op = "get"

\* the navigations to a fare's base URL, in the order they were made
Gets == SelectSeq(calls, IsGet)

\* the k-th (fare, period) pair of the fixed order
PairFare(k) == Fares[((k - 1) \div Len(periods)) + 1]
PairPeriod(k) == periods[((k - 1) % Len(periods)) + 1]

MonthsSince2024(period) == (IF period.year = <<"2024">> THEN 0 ELSE 12) + period.month

\* the context a selection's siblings share
ParentOf(c) ==
    CASE c.ctl = "ddEstado" -> PeriodOf(c)
      [] c.ctl = "ddMunicipio" -> RegionOf(c)
      [] OTHER -> MunicipalityOf(c)

\* what the enumerator returns for a control of the site
Enumerated(ctl) ==
    get_available_options(
        CASE ctl = "ddEstado" -> RegionOptions(site)
          [] ctl = "ddMunicipio" -> MunicipalityOptions(site)
          [] OTHER -> DivisionOptions(site),
        "ok")

\* the fare list is the declared one and the period list the 16 months 2024-09..2025-12
DeclaredOrder ==
    /\ fare_urls = <<"GDMTO", "GDMTH", "DIST", "DIT">>
    /\ Fares = SubSeq(fare_urls, 1, Len(Fares))
    /\ Len(all_periods) = 16
    /\ all_periods[1] = [year |-> <<"2024">>, month |-> 9]
    /\ all_periods[16] = [year |-> <<"2025">>, month |-> 12]
    /\ \A k \in 1..15 :
          MonthsSince2024(all_periods[k + 1]) = MonthsSince2024(all_periods[k]) + 1
    /\ periods = SubSeq(all_periods, 1, Len(periods))

\* the driver call c, made after the calls of `before`, keeps the fixed order
InOrder(before, c) ==
    LET k == Len(SelectSeq(before, IsGet)) + 1
    IN /\ c.op = "get" =>
             /\ k <= Len(Fares) * Len(periods)
             /\ c.fare = PairFare(k)
             /\ c.value = <<PairFare(k)>>
             /\ c.year = PairPeriod(k).year
             /\ c.month = PairPeriod(k).month
       /\ c.op \notin {"get", "quit"} =>
             /\ before # <<>>
             /\ PeriodOf(c) = PeriodOf(before[Len(before)])
       /\ (c.op = "select" /\ c.ctl \in {"ddEstado", "ddMunicipio", "ddDivision"}) =>
             /\ c.idx \in 1..Len(Enumerated(c.ctl))
             /\ c.value = Enumerated(c.ctl)[c.idx].value
             /\ \A i \in 1..Len(before) :
                   (/\ before[i].op = "select"
                    /\ before[i].ctl = c.ctl
                    /\ ParentOf(before[i]) = ParentOf(c))
                      => before[i].idx < c.idx

====
